---- MODULE Spec2Model ----
(***************************************************************************)
(* Priorities Tracker: the activity log, the schedule and the analytics    *)
(* (KPIs, streaks, plan-vs-actual) of latestapp_v2.py and more_featgpt.py. *)
(*                                                                         *)
(* Units.  One unit of time is a quarter of an hour; the duration field    *)
(* of the forms has step 0.25, so a Duration is a number of quarter hours  *)
(* too.  An instant is a number of units since the epoch (UTC).            *)
(***************************************************************************)
EXTENDS Integers, Sequences, FiniteSets, TLC

VARIABLES
    app,          \* which script of the repository is deployed
    now,          \* the wall clock: the current instant (UTC)
    sheet1,       \* the Activity Log worksheet: the rows as stored
    schedule,     \* the Schedule worksheet: the rows as stored
    time_filter,  \* the sidebar's "Time Period" selection
    session_state,\* st.session_state: the timer of the browser session
    view,         \* what the last run of the script rendered
    streaks,      \* result of the last calculate_streaks call
    kpis,         \* result of the last calculate_kpis call
    comparison,   \* result of the last reconciliation call
    runs          \* per browser session: the append_row calls of its runs

vars == <<app, now, sheet1, schedule, time_filter, session_state, view,
          streaks, kpis, comparison, runs>>

----------------------------------------------------------------------------
(* Bounds of the model *)

MaxDay == 5        \* the streak runs sample the clock on the days 1 .. MaxDay
MaxRows == 4       \* rows of the Activity Log in the streak runs
MaxEngineDay == 2  \* the engine runs sample the clock on the days 1 .. MaxEngineDay
MaxEngineRows == 2 \* rows of the Activity Log in the engine runs
MaxReconRows == 2  \* rows of either worksheet in the reconciliation runs
MaxAppRows == 1    \* rows of the Activity Log in the runs of the whole script
MaxAppSchedule == 1 \* rows of the Schedule in the runs of the whole script
MaxScheduleLen == 2 \* a schedule form is submitted while the Schedule has fewer rows

(* Time *)

HOUR == 60 \div 15
DAY == 24 * HOUR
IST_OFFSET == 5 * HOUR + 2          \* Asia/Kolkata is UTC+05:30

\* the selectbox of both forms
PRIORITIES == <<"Career", "Music", "Fitness", "Relationship", "Philosophy", "Finance">>

\* the priorities the model's sessions pick
Priorities == {"Career", "Fitness"}

\* the position of a label in sorted (lexicographic) order, as pandas'
\* groupby(sort=True) orders its keys
SortKey(p) ==
    CASE p = "Career" -> 1
      [] p = "Finance" -> 2
      [] p = "Fitness" -> 3
      [] p = "Music" -> 4
      [] p = "Philosophy" -> 5
      [] p = "Relationship" -> 6

----------------------------------------------------------------------------
(* Generic helpers: sequences, sets, sums, fractions *)

Range(s) == {s[i] : i \in 1..Len(s)}

\* Series.sum(): the sum of a column, 0 for an empty one
RECURSIVE SumSeq(_)
SumSeq(s) == IF s = <<>> THEN 0 ELSE Head(s) + SumSeq(Tail(s))

Column(df, col) == [i \in 1..Len(df) |-> df[i][col]]

MinOf(S) == CHOOSE x \in S : \A y \in S : x <= y
MaxOf(S) == CHOOSE x \in S : \A y \in S : y <= x

\* Python's sorted() on a collection of distinct values
RECURSIVE sorted(_)
sorted(S) == IF S = {} THEN <<>> ELSE <<MinOf(S)>> \o sorted(S \ {MinOf(S)})

RECURSIVE GCD(_, _)
GCD(a, b) == IF b = 0 THEN a ELSE GCD(b, a % b)

\* the quotient n / d (d > 0) of two numbers, in lowest terms
Frac(n, d) == LET g == GCD(n, d) IN [num |-> n \div g, den |-> d \div g]

----------------------------------------------------------------------------
(* Timestamps *)

\* datetime.strftime("%Y-%m-%d %H:%M:%S") of the instant t seen in a zone
\* off units east of UTC: the wall-clock text, which names no zone
strftime(t, off) == [date |-> (t + off) \div DAY, tod |-> (t + off) % DAY]

\* pd.to_datetime of such a text: a zone-naive datetime
to_datetime(text) == text.date * DAY + text.tod

\* a zone-aware Timestamp: the instant and the offset of its zone
tz_localize(naive, off) == [utc |-> naive - off, off |-> off]
tz_convert(ts, off) == [utc |-> ts.utc, off |-> off]

\* Series.dt.date: the calendar date on the Timestamp's own wall clock
dt_date(ts) == (ts.utc + ts.off) \div DAY

----------------------------------------------------------------------------
(* DataFrames.  A frame is its rows and whether it has columns at all:    *)
(* pd.DataFrame([]) of an empty worksheet has none, a frame filtered down *)
(* to no row keeps them.                                                  *)

DataFrame(cols, rows) == [cols |-> cols, rows |-> rows]
empty(df) == df.rows = <<>>

Ok(v) == [raises |-> "none", result |-> v]
Raise(e) == [raises |-> e, result |-> <<>>]
NotCalled == [raises |-> "not called", result |-> <<>>]

\* the worksheet's rows with Timestamp made zone-aware, as latestapp_v2 does:
\* a naive Timestamp is localized as UTC and then converted to IST
load_data_latestapp_v2(rows) ==
    DataFrame(rows # <<>>,
        [i \in 1..Len(rows) |->
            [rows[i] EXCEPT !.Timestamp =
                tz_convert(tz_localize(to_datetime(rows[i].Timestamp), 0), IST_OFFSET)]])

\* ... and as more_featgpt does: the naive Timestamp is localized as IST
load_data_more_featgpt(rows) ==
    DataFrame(rows # <<>>,
        [i \in 1..Len(rows) |->
            [rows[i] EXCEPT !.Timestamp =
                tz_localize(to_datetime(rows[i].Timestamp), IST_OFFSET)]])

load_data(a, rows) ==
    IF a = "latestapp_v2" THEN load_data_latestapp_v2(rows)
    ELSE load_data_more_featgpt(rows)

\* df['Priority'].unique()
unique_priorities(rows) == {rows[i].Priority : i \in 1..Len(rows)}

----------------------------------------------------------------------------
(* calculate_streaks *)

\* streak_walk with the maximum taken before the streak is extended
RECURSIVE streak_walk_stale_max(_, _, _, _, _)
streak_walk_stale_max(dates, i, current_streak, max_streak, last_date) ==
    IF i > Len(dates)
    THEN [current |-> current_streak, max |-> max_streak]
    ELSE IF dates[i] - last_date = 1
         THEN streak_walk_stale_max(dates, i + 1, current_streak + 1,
                          IF current_streak > max_streak
                          THEN current_streak ELSE max_streak,
                          dates[i])
         ELSE streak_walk_stale_max(dates, i + 1, 1, max_streak, dates[i])

\* streak_walk counting the day after a gap as day 0 of the new streak
RECURSIVE streak_walk_from_zero(_, _, _, _, _)
streak_walk_from_zero(dates, i, current_streak, max_streak, last_date) ==
    IF i > Len(dates)
    THEN [current |-> current_streak, max |-> max_streak]
    ELSE IF dates[i] - last_date = 1
         THEN streak_walk_from_zero(dates, i + 1, current_streak + 1,
                          IF current_streak + 1 > max_streak
                          THEN current_streak + 1 ELSE max_streak,
                          dates[i])
         ELSE streak_walk_from_zero(dates, i + 1, 0, max_streak, dates[i])

\* the loop over priority_dates[1:]: dates is the sorted list, i the position
\* of the next date to visit
RECURSIVE streak_walk(_, _, _, _, _)
streak_walk(dates, i, current_streak, max_streak, last_date) ==
    IF i > Len(dates)
    THEN [current |-> current_streak, max |-> max_streak]
    ELSE IF dates[i] - last_date = 1
         THEN streak_walk(dates, i + 1, current_streak + 1,
                          IF current_streak + 1 > max_streak
                          THEN current_streak + 1 ELSE max_streak,
                          dates[i])
         ELSE streak_walk(dates, i + 1, 1, max_streak, dates[i])

\* sorted(priority_df['Date'].unique())
priority_dates(rows, priority) ==
    sorted({dt_date(rows[i].Timestamp) :
                i \in {j \in 1..Len(rows) : rows[j].Priority = priority}})

\* streak_of reporting the longest streak as the current one
streak_of_longest(rows, priority) ==
    LET dates == priority_dates(rows, priority)
        w == streak_walk(dates, 2, 1, 1, dates[1])
    IN  [current |-> w.max, max |-> w.max,
         last_activity |-> MaxOf(Range(dates))]

streak_of(rows, priority) ==
    LET dates == priority_dates(rows, priority)
        w == streak_walk(dates, 2, 1, 1, dates[1])
    IN  [current |-> w.current, max |-> w.max,
         last_activity |-> MaxOf(Range(dates))]

\* calculate_streaks without its guard: df['Timestamp'] of a frame without
\* columns is a KeyError
calculate_streaks_unguarded(df) ==
    IF ~df.cols
    THEN Raise("KeyError")
    ELSE Ok([p \in unique_priorities(df.rows) |-> streak_of(df.rows, p)])

calculate_streaks(df) ==
    IF empty(df)
    THEN Ok(<<>>)
    ELSE Ok([p \in unique_priorities(df.rows) |-> streak_of(df.rows, p)])

----------------------------------------------------------------------------
(* calculate_kpis *)

\* the rows of one group
rows_of_priority(rows, p) == SelectSeq(rows, LAMBDA r : r.Priority = p)
rows_of_day(rows, d, p) ==
    SelectSeq(rows, LAMBDA r : r.Priority = p /\ dt_date(r.Timestamp) = d)

\* (df['Timestamp'].max() - df['Timestamp'].min()).days + 1, for a frame
\* with at least one row: Timedelta.days is the whole 24-hour periods of
\* the difference between the two instants
date_range(rows) ==
    LET instants == {rows[i].Timestamp.utc : i \in 1..Len(rows)}
    IN  (MaxOf(instants) - MinOf(instants)) \div DAY + 1

\* kpis['total_hours'] / date_range if date_range > 0 else 0.  On a frame
\* without rows max() and min() are NaT, .days is NaN, and NaN > 0 is False
avg_hours_per_day(rows) ==
    IF rows # <<>> /\ date_range(rows) > 0
    THEN Frac(SumSeq(Column(rows, "Duration")), date_range(rows))
    ELSE Frac(0, 1)

\* df.groupby(['Date', 'Priority'])['Duration'].sum(): one total for each
\* (Date, Priority) pair that has a row
priority_daily_totals(rows) ==
    [g \in {<<dt_date(rows[i].Timestamp), rows[i].Priority>> : i \in 1..Len(rows)} |->
        SumSeq(Column(rows_of_day(rows, g[1], g[2]), "Duration"))]

\* priority_avgs with the days between a priority's first and last entry
\* that have no entry counted as days of zero hours
priority_avgs_zero_days(rows) ==
    LET totals == priority_daily_totals(rows)
    IN  [p \in unique_priorities(rows) |->
            LET days == {g[1] : g \in {h \in DOMAIN totals : h[2] = p}}
            IN  Frac(SumSeq([i \in 1..Len(sorted(days)) |-> totals[<<sorted(days)[i], p>>]]),
                     MaxOf(days) - MinOf(days) + 1)]

\* priority_daily_totals.groupby('Priority')['Duration'].mean()
priority_avgs(rows) ==
    LET totals == priority_daily_totals(rows)
    IN  [p \in unique_priorities(rows) |->
            LET groups == {g \in DOMAIN totals : g[2] = p}
            IN  Frac(SumSeq([i \in 1..Len(sorted({g[1] : g \in groups})) |->
                                totals[<<sorted({g[1] : g \in groups})[i], p>>]]),
                     Cardinality(groups))]

\* the keys of a groupby, in sorted order
RECURSIVE group_keys(_)
group_keys(S) ==
    IF S = {} THEN <<>>
    ELSE LET k == CHOOSE x \in S : \A y \in S : SortKey(x) <= SortKey(y)
         IN  <<k>> \o group_keys(S \ {k})

\* first_max keeping the last occurrence of the maximum
RECURSIVE last_max(_, _, _)
last_max(keys, val, best) ==
    IF keys = <<>> THEN best
    ELSE last_max(Tail(keys), val,
                  IF val[Head(keys)] >= val[best] THEN Head(keys) ELSE best)

\* Series.idxmax(): the label of the first occurrence of the maximum
RECURSIVE first_max(_, _, _)
first_max(keys, val, best) ==
    IF keys = <<>> THEN best
    ELSE first_max(Tail(keys), val,
                   IF val[Head(keys)] > val[best] THEN Head(keys) ELSE best)

\* idxmax answering None for an empty Series
idxmax_none(keys, val) ==
    IF keys = <<>> THEN Ok("None")
    ELSE Ok(first_max(Tail(keys), val, Head(keys)))

idxmax(keys, val) ==
    IF keys = <<>> THEN Raise("ValueError")
    ELSE Ok(first_max(Tail(keys), val, Head(keys)))

\* total_hours counting each distinct duration once
total_hours_unique(rows) ==
    LET S == {rows[i].Duration : i \in 1..Len(rows)}
    IN  SumSeq([i \in 1..Len(sorted(S)) |-> sorted(S)[i]])

\* df['Duration'].sum()
total_hours(rows) == SumSeq(Column(rows, "Duration"))

\* df.groupby('Priority')['Duration'].sum()
priority_totals(rows) ==
    [p \in unique_priorities(rows) |->
        SumSeq(Column(rows_of_priority(rows, p), "Duration"))]

most_active(rows) ==
    idxmax(group_keys(unique_priorities(rows)), priority_totals(rows))

calculate_kpis(df) ==
    IF ~df.cols THEN Raise("KeyError")
    ELSE IF most_active(df.rows).raises # "none"
    THEN Raise(most_active(df.rows).raises)
    ELSE Ok([total_hours |-> total_hours(df.rows),
             avg_hours_per_day |-> avg_hours_per_day(df.rows),
             priority_averages |-> priority_avgs(df.rows),
             most_active_priority |-> most_active(df.rows).result])

----------------------------------------------------------------------------
(* The time window of the sidebar *)

TimeFilters == {"Last 7 days", "All time"}

\* int(time_filter.split()[1])
filter_days(f) ==
    CASE f = "Last 7 days" -> 7
      [] f = "Last 30 days" -> 30
      [] f = "Last 90 days" -> 90

\* df[df['Timestamp'] >= cutoff_date], cutoff_date = now - timedelta(days)
apply_time_filter(df, f, t) ==
    IF f = "All time" THEN df
    ELSE DataFrame(df.cols,
            SelectSeq(df.rows, LAMBDA r : r.Timestamp.utc >= t - filter_days(f) * DAY))

\* the record set an analytics call is given: the loaded worksheet, cut to
\* the time window when it has rows
record_set(a, rows, f, t) ==
    IF rows = <<>> THEN load_data(a, rows)
    ELSE apply_time_filter(load_data(a, rows), f, t)

----------------------------------------------------------------------------
(* The worksheets *)

Apps == {"latestapp_v2", "more_featgpt"}

\* sheet.append_row([now, priority, activity, final_duration, remarks]) with
\* now = datetime.now(IST).strftime("%Y-%m-%d %H:%M:%S")
activity_row(t, priority, activity, duration, remarks) ==
    [Timestamp |-> strftime(t, IST_OFFSET),
     Priority |-> priority,
     Activity_Description |-> activity,
     Duration |-> duration,
     Remarks |-> remarks]

\* a variant that inserts the new row above the stored ones
append_row_on_top(sheet, row) == <<row>> \o sheet

\* a variant writing the new row over the last stored one, as two calls
\* that aim at the same free line do
append_row_over_last(sheet, row) ==
    IF sheet = <<>> THEN <<row>>
    ELSE [sheet EXCEPT ![Len(sheet)] = row]

append_row(sheet, row) == Append(sheet, row)

\* the instant at which the IST wall clock shows time of day tod on day d
ist_instant(d, tod) == d * DAY + tod - IST_OFFSET

ist_day(t) == (t + IST_OFFSET) \div DAY

NoView == [sections |-> <<>>, raised |-> "none", messages |-> <<>>]

\* the browser sessions: each has its own runs of the script
Sessions == {"A", "B"}

\* a session that has pressed no button yet: rows are the rows of the
\* append_row calls of its runs, in the order of the calls, sent the number
\* of calls that have returned, schedule_data what its last
\* schedule_sheet.get_all_records() returned
NoRuns == [s \in Sessions |-> [rows |-> <<>>, sent |-> 0, schedule_data |-> <<>>]]

\* the timer as create_timer_section initializes it; None is the start_time
\* of a timer that is not running
None == -1
NoTimer == [timer_running |-> FALSE, start_time |-> None, elapsed_time |-> 0]

Init ==
    /\ app \in Apps
    /\ now = ist_instant(1, 1 * HOUR)
    /\ sheet1 = <<>>
    /\ schedule = <<>>
    /\ time_filter = "All time"
    /\ session_state = NoTimer
    /\ view = NoView
    /\ streaks = NotCalled
    /\ kpis = NotCalled
    /\ comparison = NotCalled
    /\ runs = NoRuns

----------------------------------------------------------------------------
(* The Schedule worksheet as loaded *)

\* date.strftime("%Y-%m-%d"): a calendar date is written as itself
strftime_date(d) == d

\* pd.to_datetime of a date text: midnight of that date, zone-naive
to_datetime_date(text) == text * DAY

\* Series.dt.date of a zone-naive datetime
naive_date(naive) == naive \div DAY

\* latestapp_v2, load_data("Schedule"): Date is localized as IST
load_schedule_latestapp_v2(rows) ==
    DataFrame(rows # <<>>,
        [i \in 1..Len(rows) |->
            [rows[i] EXCEPT !.Date = tz_localize(to_datetime_date(rows[i].Date), IST_OFFSET)]])

\* more_featgpt, load_data(): Date stays zone-naive
load_schedule_more_featgpt(rows) ==
    DataFrame(rows # <<>>,
        [i \in 1..Len(rows) |->
            [rows[i] EXCEPT !.Date = to_datetime_date(rows[i].Date)]])

----------------------------------------------------------------------------
(* Plan-vs-actual reconciliation *)

\* round(n / d, 0) for d > 0, halves to the even neighbour
RoundDiv(n, d) ==
    LET q == n \div d
        r == n - q * d
    IN  IF 2 * r < d THEN q
        ELSE IF 2 * r > d THEN q + 1
        ELSE IF q % 2 = 0 THEN q ELSE q + 1

\* percent_round2 dropping the digits after the second decimal
percent_trunc2(a, b) == (a * 10000) \div b

\* (a / b * 100).round(2), in hundredths of a percent
percent_round2(a, b) == RoundDiv(a * 10000, b)

\* the (Date, Priority) keys of a merge, in lexicographic order
RECURSIVE merge_keys(_)
merge_keys(S) ==
    IF S = {} THEN <<>>
    ELSE LET k == CHOOSE x \in S : \A y \in S :
                      \/ x[1] < y[1]
                      \/ x[1] = y[1] /\ SortKey(x[2]) <= SortKey(y[2])
         IN  <<k>> \o merge_keys(S \ {k})

\* groupby(['Date', 'Priority'])[col].sum(), dates[i] being the Date of
\* rows[i]: the sum of col for each (Date, Priority) pair that has a row
group_sums(rows, dates, col) ==
    [g \in {<<dates[i], rows[i].Priority>> : i \in 1..Len(rows)} |->
        SumSeq([j \in 1..Len(rows) |->
                    IF <<dates[j], rows[j].Priority>> = g THEN rows[j][col] ELSE 0])]

\* outer_merge as a left join: only the keys of the planned side
outer_merge_left(planned, actual) ==
    LET keys == merge_keys(DOMAIN planned)
    IN  [i \in 1..Len(keys) |->
            [Date |-> keys[i][1],
             Priority |-> keys[i][2],
             Planned_Duration |-> planned[keys[i]],
             Duration |-> IF keys[i] \in DOMAIN actual THEN actual[keys[i]] ELSE 0]]

\* pd.merge(planned, actual, on=['Date', 'Priority'], how='outer') and
\* fillna(0): a row for each key of either side
outer_merge(planned, actual) ==
    LET keys == merge_keys(DOMAIN planned \cup DOMAIN actual)
    IN  [i \in 1..Len(keys) |->
            [Date |-> keys[i][1],
             Priority |-> keys[i][2],
             Planned_Duration |-> IF keys[i] \in DOMAIN planned THEN planned[keys[i]] ELSE 0,
             Duration |-> IF keys[i] \in DOMAIN actual THEN actual[keys[i]] ELSE 0]]

\* overall_completion as whole percents
overall_completion_whole(total_actual, total_planned) ==
    IF total_planned > 0 THEN RoundDiv(total_actual * 100, total_planned) * 100 ELSE 0

\* (total_actual / total_planned * 100).round(2) if total_planned > 0 else 0
overall_completion(total_actual, total_planned) ==
    IF total_planned > 0 THEN percent_round2(total_actual, total_planned) ELSE 0

\* more_featgpt: analyze_schedule_vs_actual(activity_df, schedule_df)
analyze_schedule_vs_actual(activity_df, schedule_df) ==
    IF empty(schedule_df)
    THEN Ok([rows |-> <<>>, shown |-> FALSE,
             message |-> "No scheduled activities found. Please add some activities to your schedule."])
    ELSE IF empty(activity_df)
    THEN Ok([rows |-> <<>>, shown |-> FALSE,
             message |-> "No logged activities found. Please log some activities to see the comparison."])
    ELSE
    LET actual_activities ==
            group_sums(activity_df.rows,
                       [i \in 1..Len(activity_df.rows) |-> dt_date(activity_df.rows[i].Timestamp)],
                       "Duration")
        planned_activities ==
            group_sums(schedule_df.rows,
                       [i \in 1..Len(schedule_df.rows) |-> naive_date(schedule_df.rows[i].Date)],
                       "Planned_Duration")
        merged == outer_merge(planned_activities, actual_activities)
        rows == [i \in 1..Len(merged) |->
                    [Date |-> merged[i].Date,
                     Priority |-> merged[i].Priority,
                     Planned_Duration |-> merged[i].Planned_Duration,
                     Duration |-> merged[i].Duration,
                     Completion_Rate |->
                        IF merged[i].Planned_Duration > 0
                        THEN percent_round2(merged[i].Duration, merged[i].Planned_Duration)
                        ELSE 0]]
        total_planned == SumSeq(Column(rows, "Planned_Duration"))
        total_actual == SumSeq(Column(rows, "Duration"))
    IN  Ok([rows |-> rows, shown |-> TRUE, message |-> "",
            total_planned |-> total_planned,
            total_actual |-> total_actual,
            overall_completion |-> overall_completion(total_actual, total_planned)])

\* a call of analyze_schedule_vs_actual with the given keyword arguments: the
\* function takes none
call_analyze_schedule_vs_actual(activity_df, schedule_df, keywords) ==
    IF keywords # {} THEN Raise("TypeError")
    ELSE analyze_schedule_vs_actual(activity_df, schedule_df)

\* difference with the operands exchanged
difference_of_planned(duration_actual, planned_duration) ==
    planned_duration - duration_actual

\* comparison_df['Duration_actual'] - comparison_df['Planned_Duration']
difference(duration_actual, planned_duration) ==
    duration_actual - planned_duration

\* percentage_deviation without the sign of the difference
percentage_deviation_unsigned(total_difference, total_planned_hours) ==
    IF total_planned_hours # 0
    THEN percent_round2(IF total_difference < 0 THEN -total_difference ELSE total_difference,
                        total_planned_hours)
    ELSE 0

\* (Total_Difference / Total_Planned_Hours) * 100 if Total_Planned_Hours != 0
\* else 0, formatted as f"{x:.2f}%": hundredths of a percent
percentage_deviation(total_difference, total_planned_hours) ==
    IF total_planned_hours # 0
    THEN percent_round2(total_difference, total_planned_hours)
    ELSE 0

\* latestapp_v2: the cutoff of create_plan_vs_actual_analysis,
\* (datetime.now(IST) - timedelta(days=days)).date()
cutoff_day(f, t) == (t + IST_OFFSET - filter_days(f) * DAY) \div DAY

\* latestapp_v2: create_plan_vs_actual_analysis(time_filter), given the two
\* frames load_data returned
create_plan_vs_actual_analysis(logged_df, schedule_df, f, t) ==
    IF ~logged_df.cols
    THEN Ok([rows |-> <<>>, shown |-> FALSE,
             message |-> "The 'Duration' column is missing in the logged activities data."])
    ELSE IF ~schedule_df.cols
    THEN Ok([rows |-> <<>>, shown |-> FALSE,
             message |-> "The 'Planned_Duration' column is missing in the schedule data."])
    ELSE
    LET logged == IF f = "All time" THEN logged_df.rows
                  ELSE SelectSeq(logged_df.rows,
                                 LAMBDA r : dt_date(r.Timestamp) >= cutoff_day(f, t))
        sched == IF f = "All time" THEN schedule_df.rows
                 ELSE SelectSeq(schedule_df.rows,
                                LAMBDA r : dt_date(r.Date) >= cutoff_day(f, t))
        planned_hours ==
            group_sums(sched, [i \in 1..Len(sched) |-> dt_date(sched[i].Date)],
                       "Planned_Duration")
        actual_hours ==
            group_sums(logged, [i \in 1..Len(logged) |-> dt_date(logged[i].Timestamp)],
                       "Duration")
        merged == outer_merge(planned_hours, actual_hours)
        rows == [i \in 1..Len(merged) |->
                    [Date |-> merged[i].Date,
                     Priority |-> merged[i].Priority,
                     Planned_Duration |-> merged[i].Planned_Duration,
                     Duration |-> merged[i].Duration,
                     Difference |-> difference(merged[i].Duration, merged[i].Planned_Duration)]]
        kpi_df ==
            [p \in {rows[i].Priority : i \in 1..Len(rows)} |->
                LET mine == SelectSeq(rows, LAMBDA r : r.Priority = p)
                    planned == SumSeq(Column(mine, "Planned_Duration"))
                    diff == SumSeq(Column(mine, "Difference"))
                IN  [Total_Planned_Hours |-> planned,
                     Total_Actual_Hours |-> SumSeq(Column(mine, "Duration")),
                     Total_Difference |-> diff,
                     Percentage_Deviation |-> percentage_deviation(diff, planned)]]
    IN  Ok([rows |-> rows, shown |-> TRUE, message |-> "", kpi_df |-> kpi_df])

----------------------------------------------------------------------------
(* create_timer_section.  s is st.session_state, button the button the    *)
(* user pressed to trigger this run of the script, t the time of the run. *)

\* col1: the Start Timer button of a stopped timer, the Stop Timer button of
\* a running one
timer_buttons(a, s, button, t) ==
    IF ~s.timer_running
    THEN IF button = "Start Timer"
         THEN [s EXCEPT !.timer_running = TRUE, !.start_time = t]
         ELSE s
    ELSE IF button = "Stop Timer"
         THEN IF a = "latestapp_v2"
              THEN [s EXCEPT !.timer_running = FALSE,
                             !.elapsed_time = IF s.start_time # None
                                              THEN t - s.start_time ELSE @]
              ELSE [timer_running |-> FALSE,
                    start_time |-> None,
                    elapsed_time |-> s.elapsed_time + (t - s.start_time)]
         ELSE s

\* col2: latestapp_v2 stores the running timer's elapsed time in the session
\* (after a button it calls st.rerun(), and the new run does the same);
\* more_featgpt only displays it
timer_display(a, s, t) ==
    IF a = "latestapp_v2" /\ s.timer_running
    THEN [s EXCEPT !.elapsed_time = t - s.start_time]
    ELSE s

\* elapsed_hours without the time since the timer was started
elapsed_hours_stored(a, s, t) == s.elapsed_time

\* the value create_timer_section returns, in quarter hours
elapsed_hours(a, s, t) ==
    IF a = "latestapp_v2"
    THEN timer_display(a, s, t).elapsed_time
    ELSE s.elapsed_time + (IF s.timer_running THEN t - s.start_time ELSE 0)

\* create_timer_section initializing the timer in every run, not only in
\* the first one of the session
create_timer_section_fresh(a, s, button, t) ==
    timer_display(a, timer_buttons(a, NoTimer, button, t), t)

create_timer_section(a, s, button, t) ==
    timer_display(a, timer_buttons(a, s, button, t), t)

----------------------------------------------------------------------------
(* One run of the script below the Log Activity tab: what it calls and    *)
(* what it renders.  An exception that nothing catches ends the run.      *)

DashboardSections(a) ==
    IF a = "latestapp_v2"
    THEN <<"Key Performance Indicators", "Daily Averages by Priority",
           "Activity Streaks", "Daily Hours Trend",
           "Time Distribution by Priority", "Recent Activities">>
    ELSE <<"Key Performance Indicators", "Daily Averages by Priority",
           "Activity Streaks", "Daily Hours Trend",
           "Time Distribution by Priority", "Priority Breakdown",
           "Schedule Adherence">>

\* what a run has rendered and called so far; it starts below the timer
Page(msgs) ==
    [sections |-> <<"Activity Timer">>, raised |-> "none", messages |-> msgs,
     kpis |-> NotCalled, streaks |-> NotCalled, comparison |-> NotCalled]

raise(page, e) == [page EXCEPT !.raised = e]

\* the body of create_dashboard from calculate_kpis on; k is what
\* calculate_kpis(filtered_df) did
dashboard_body(page, a, filtered_df, k) ==
    IF k.raises # "none" THEN [page EXCEPT !.kpis = k, !.raised = k.raises]
    ELSE [page EXCEPT !.kpis = k,
                      !.streaks = calculate_streaks(filtered_df),
                      !.sections = @ \o DashboardSections(a)]

\* latestapp_v2: create_dashboard(time_filter)
create_dashboard_latestapp_v2(page, df, f, t) ==
    \* df['Timestamp'] of a frame without columns
    IF f # "All time" /\ ~df.cols THEN raise(page, "KeyError")
    ELSE dashboard_body(page, "latestapp_v2", apply_time_filter(df, f, t),
                        calculate_kpis(apply_time_filter(df, f, t)))

\* latestapp_v2: what create_schedule_section() shows without a submission
create_schedule_section_latestapp_v2(page, schedule_df) ==
    IF page.raised # "none" THEN page
    \* schedule_df['Date'] of a frame without columns
    ELSE IF ~schedule_df.cols THEN raise(page, "KeyError")
    ELSE [page EXCEPT !.sections = @ \o <<"Today's Schedule", "Add New Schedule">>]

\* what the Plan vs Actual tab shows of the comparison cmp
plan_vs_actual_body(page, cmp) ==
    IF cmp.result.shown
    THEN [page EXCEPT !.comparison = cmp,
                      !.sections = @ \o <<"Performance KPIs by Priority",
                                          "Planned vs Actual Hours Over Time">>]
    ELSE [page EXCEPT !.comparison = cmp,
                      !.messages = @ \o <<cmp.result.message>>]

\* latestapp_v2: the Plan vs Actual tab
plan_vs_actual_tab(page, logged_df, schedule_df, f, t) ==
    IF page.raised # "none" THEN page
    ELSE plan_vs_actual_body(page,
             create_plan_vs_actual_analysis(logged_df, schedule_df, f, t))

render_latestapp_v2(rows, sched, f, t, msgs) ==
    plan_vs_actual_tab(
        create_schedule_section_latestapp_v2(
            create_dashboard_latestapp_v2(Page(msgs), load_data("latestapp_v2", rows), f, t),
            load_schedule_latestapp_v2(sched)),
        load_data("latestapp_v2", rows), load_schedule_latestapp_v2(sched), f, t)

\* a call of analyze_schedule_vs_actual from the page: cmp is what the call
\* did, and what follows it is rendered when it returns
schedule_adherence(page, cmp, following) ==
    IF page.raised # "none" THEN page
    ELSE IF cmp.raises # "none"
    THEN [page EXCEPT !.comparison = cmp, !.raised = cmp.raises]
    ELSE [page EXCEPT !.comparison = cmp, !.sections = @ \o following]

\* more_featgpt: create_dashboard(), which ends with
\* analyze_schedule_vs_actual(df, schedule_df, chart_key_suffix="dashboard")
\* and the Recent Activities table
create_dashboard_more_featgpt(page, df, schedule_df, f, t) ==
    IF empty(df)
    THEN [page EXCEPT !.messages = @ \o <<"No data available to display">>]
    ELSE schedule_adherence(
             dashboard_body(page, "more_featgpt", apply_time_filter(df, f, t),
                            calculate_kpis(apply_time_filter(df, f, t))),
             call_analyze_schedule_vs_actual(apply_time_filter(df, f, t), schedule_df,
                                             {"chart_key_suffix"}),
             <<"Recent Activities">>)

\* more_featgpt: the Schedule tab, then the Dashboard tab: create_dashboard()
\* and analyze_schedule_vs_actual(activity_df, schedule_df,
\* chart_key_suffix="tab3")
render_more_featgpt(rows, sched, f, t, msgs) ==
    schedule_adherence(
        create_dashboard_more_featgpt(
            [Page(msgs) EXCEPT !.sections = @ \o <<"Schedule Activities">>],
            load_data("more_featgpt", rows), load_schedule_more_featgpt(sched), f, t),
        call_analyze_schedule_vs_actual(load_data("more_featgpt", rows),
                                        load_schedule_more_featgpt(sched),
                                        {"chart_key_suffix"}),
        <<>>)

render(a, rows, sched, f, t, msgs) ==
    IF a = "latestapp_v2" THEN render_latestapp_v2(rows, sched, f, t, msgs)
    ELSE render_more_featgpt(rows, sched, f, t, msgs)

view_of(page) ==
    [sections |-> page.sections, raised |-> page.raised, messages |-> page.messages]

----------------------------------------------------------------------------
(* Streak runs: the Activity Log grows by one short entry a time, the     *)
(* days pass, and calculate_streaks is applied to the loaded log.         *)

StreakLog(p) ==
    /\ Len(sheet1) < MaxRows
    /\ sheet1' = append_row(sheet1, activity_row(now, p, "a", 1, ""))
    /\ streaks' = calculate_streaks(record_set(app, sheet1', time_filter, now))
    /\ UNCHANGED <<runs, app, now, schedule, time_filter, session_state, view, kpis, comparison>>

StreakNextDay ==
    /\ ist_day(now) < MaxDay
    /\ now' = now + DAY
    /\ streaks' = calculate_streaks(record_set(app, sheet1, time_filter, now'))
    /\ UNCHANGED <<runs, app, sheet1, schedule, time_filter, session_state, view, kpis, comparison>>

StreakNext ==
    \/ \E p \in Priorities : StreakLog(p)
    \/ StreakNextDay

StreakSpec == Init /\ [][StreakNext]_vars

----------------------------------------------------------------------------------------------------------------------------------------
(* Engine runs: entries of several durations are logged early and late in *)
(* the day, the time window changes, and calculate_kpis and               *)
(* calculate_streaks are applied to the record set.                       *)

TimesOfDay == {1 * HOUR, 23 * HOUR}
Durations == {1, 2}

\* the instants at which the engine runs sample the clock; the last one lies
\* more than a week after all the others
EngineInstants ==
    {ist_instant(d, tod) : d \in 1..MaxEngineDay, tod \in TimesOfDay}
        \cup {ist_instant(MaxEngineDay + 8, 1 * HOUR)}

EngineLog(p, d) ==
    /\ Len(sheet1) < MaxEngineRows
    /\ sheet1' = append_row(sheet1, activity_row(now, p, "a", d, ""))
    /\ kpis' = calculate_kpis(record_set(app, sheet1', time_filter, now))
    /\ streaks' = calculate_streaks(record_set(app, sheet1', time_filter, now))
    /\ UNCHANGED <<runs, app, now, schedule, time_filter, session_state, view, comparison>>

EngineTick(t) ==
    /\ t > now
    /\ now' = t
    /\ kpis' = calculate_kpis(record_set(app, sheet1, time_filter, now'))
    /\ streaks' = calculate_streaks(record_set(app, sheet1, time_filter, now'))
    /\ UNCHANGED <<runs, app, sheet1, schedule, time_filter, session_state, view, comparison>>

EngineSelectFilter(f) ==
    /\ f # time_filter
    /\ time_filter' = f
    /\ kpis' = calculate_kpis(record_set(app, sheet1, time_filter', now))
    /\ streaks' = calculate_streaks(record_set(app, sheet1, time_filter', now))
    /\ UNCHANGED <<runs, app, now, sheet1, schedule, session_state, view, comparison>>

EngineNext ==
    \/ \E p \in Priorities, d \in Durations : EngineLog(p, d)
    \/ \E t \in EngineInstants : EngineTick(t)
    \/ \E f \in TimeFilters : EngineSelectFilter(f)

EngineSpec == Init /\ [][EngineNext]_vars

----------------------------------------------------------------------------
(* Reconciliation runs: activities are logged, schedule entries are       *)
(* appended, the time window changes, and the reconciliation of the       *)
(* deployed script is applied to the two loaded worksheets.               *)

ReconDays == {1, 10}

\* the Planned Duration field, in quarter hours: its minimum is 0
PlannedDurations == {0, 3}

ReconInstants ==
    {ist_instant(d, 1 * HOUR) : d \in ReconDays} \cup {ist_instant(10, 1 * HOUR)}

\* schedule_row with the entry marked as done
schedule_row_completed(a, date, priority, planned_activity, planned_duration, schedule_type) ==
    IF a = "latestapp_v2"
    THEN [Date |-> strftime_date(date),
          Priority |-> priority,
          Planned_Activity |-> planned_activity,
          Planned_Duration |-> planned_duration]
    ELSE [Date |-> strftime_date(date),
          Time |-> "09:00",
          Priority |-> priority,
          Planned_Activity |-> planned_activity,
          Planned_Duration |-> planned_duration,
          Type |-> schedule_type,
          Status |-> "Completed"]

\* the row create_schedule_section appends for one date
schedule_row(a, date, priority, planned_activity, planned_duration, schedule_type) ==
    IF a = "latestapp_v2"
    THEN [Date |-> strftime_date(date),
          Priority |-> priority,
          Planned_Activity |-> planned_activity,
          Planned_Duration |-> planned_duration]
    ELSE [Date |-> strftime_date(date),
          Time |-> "09:00",
          Priority |-> priority,
          Planned_Activity |-> planned_activity,
          Planned_Duration |-> planned_duration,
          Type |-> schedule_type,
          Status |-> "Pending"]

\* the reconciliation of the deployed script on the two worksheets:
\* latestapp_v2 cuts both frames to the time window itself, more_featgpt's
\* dashboard passes its windowed activity frame and the whole schedule
reconcile(a, rows, sched, f, t) ==
    IF a = "latestapp_v2"
    THEN create_plan_vs_actual_analysis(load_data(a, rows),
                                        load_schedule_latestapp_v2(sched), f, t)
    ELSE analyze_schedule_vs_actual(record_set(a, rows, f, t),
                                    load_schedule_more_featgpt(sched))

ReconLog(p) ==
    /\ Len(sheet1) < MaxReconRows
    /\ sheet1' = append_row(sheet1, activity_row(now, p, "a", 1, ""))
    /\ comparison' = reconcile(app, sheet1', schedule, time_filter, now)
    /\ UNCHANGED <<runs, app, now, schedule, time_filter, session_state, view, streaks, kpis>>

ReconSchedule(date, p, planned_duration) ==
    /\ Len(schedule) < MaxReconRows
    /\ schedule' = append_row(schedule,
                       schedule_row(app, date, p, "b", planned_duration, "One-time"))
    /\ comparison' = reconcile(app, sheet1, schedule', time_filter, now)
    /\ UNCHANGED <<runs, app, now, sheet1, time_filter, session_state, view, streaks, kpis>>

ReconTick(t) ==
    /\ t > now
    /\ now' = t
    /\ comparison' = reconcile(app, sheet1, schedule, time_filter, now')
    /\ UNCHANGED <<runs, app, sheet1, schedule, time_filter, session_state, view, streaks, kpis>>

ReconSelectFilter(f) ==
    /\ f # time_filter
    /\ time_filter' = f
    /\ comparison' = reconcile(app, sheet1, schedule, time_filter', now)
    /\ UNCHANGED <<runs, app, now, sheet1, schedule, session_state, view, streaks, kpis>>

ReconNext ==
    \/ \E p \in Priorities : ReconLog(p)
    \/ \E date \in ReconDays, p \in Priorities, d \in PlannedDurations :
          ReconSchedule(date, p, d)
    \/ \E t \in ReconInstants : ReconTick(t)
    \/ \E f \in TimeFilters : ReconSelectFilter(f)

ReconSpec == Init /\ [][ReconNext]_vars

----------------------------------------------------------------------------
(* The script.  Every interaction of the user runs main() once, at some   *)
(* instant not before the last run; st.rerun() runs it again at once.     *)

AppInstants ==
    {ist_instant(1, 1 * HOUR), ist_instant(1, 23 * HOUR), ist_instant(10, 1 * HOUR)}

\* the run's effect on the variables that show what it rendered
Rendered(r) ==
    /\ view' = view_of(r)
    /\ kpis' = r.kpis
    /\ streaks' = r.streaks
    /\ comparison' = r.comparison

\* the user picks a time period in the sidebar
SelectTimeFilter(t, f) ==
    /\ t >= now
    /\ f # time_filter
    /\ now' = t
    /\ time_filter' = f
    /\ session_state' = create_timer_section(app, session_state, "none", t)
    /\ Rendered(render(app, sheet1, schedule, f, t, <<>>))
    /\ UNCHANGED <<runs, app, sheet1, schedule>>

StartTimer(t) ==
    /\ t >= now
    /\ ~session_state.timer_running
    /\ now' = t
    /\ session_state' = create_timer_section(app, session_state, "Start Timer", t)
    /\ Rendered(render(app, sheet1, schedule, time_filter, t, <<>>))
    /\ UNCHANGED <<runs, app, sheet1, schedule, time_filter>>

StopTimer(t) ==
    /\ t >= now
    /\ session_state.timer_running
    /\ now' = t
    /\ session_state' = create_timer_section(app, session_state, "Stop Timer", t)
    /\ Rendered(render(app, sheet1, schedule, time_filter, t, <<>>))
    /\ UNCHANGED <<runs, app, sheet1, schedule, time_filter>>

\* Log Activity resetting the timer whether or not the row was appended
LogActivityResetting(t, priority, duration, ok) ==
    LET hours == elapsed_hours(app, session_state, t)
        name_error == create_timer_section(app, session_state, "none", t).timer_running
                          /\ ~(hours > 0)
        final_duration == IF hours > 0 THEN hours ELSE duration
    IN  /\ t >= now
        /\ Len(sheet1) < MaxAppRows
        /\ now' = t
        /\ session_state' = NoTimer
        /\ IF ok /\ ~name_error
           THEN /\ sheet1' = append_row(sheet1,
                                activity_row(t, priority, "a", final_duration, ""))
                /\ Rendered(render(app, sheet1', schedule, time_filter, t, <<>>))
           ELSE /\ sheet1' = sheet1
                /\ Rendered(render(app, sheet1, schedule, time_filter, t,
                                   <<"An error occurred">>))
        /\ UNCHANGED <<runs, app, schedule, time_filter>>

\* the Log Activity button, with the duration typed into the form and
\* whether sheet.append_row succeeds
LogActivity(t, priority, duration, ok) ==
    LET s == create_timer_section(app, session_state, "none", t)
        hours == elapsed_hours(app, session_state, t)
        \* the duration field is only there while the timer is not running
        name_error == s.timer_running /\ ~(hours > 0)
        final_duration == IF hours > 0 THEN hours ELSE duration
    IN  /\ t >= now
        /\ Len(sheet1) < MaxAppRows
        /\ now' = t
        /\ IF ok /\ ~name_error
           THEN /\ sheet1' = append_row(sheet1,
                                activity_row(t, priority, "a", final_duration, ""))
                /\ session_state' = NoTimer
                \* st.rerun(): the success message goes with the run it ends
                /\ Rendered(render(app, sheet1', schedule, time_filter, t, <<>>))
           ELSE /\ sheet1' = sheet1
                /\ session_state' = s
                /\ Rendered(render(app, sheet1, schedule, time_filter, t,
                                   <<"An error occurred">>))
        /\ UNCHANGED <<runs, app, schedule, time_filter>>

\* the schedule form, submitted with a date and a priority (in more_featgpt
\* as a One-time schedule), and whether sheet.append_row succeeds
AddSchedule(t, date, priority, ok) ==
    LET s == create_timer_section(app, session_state, "none", t)
        new_row == schedule_row(app, date, priority, "a", 2, "One-time")
        \* latestapp_v2 ends the run with st.rerun(), more_featgpt goes on
        \* to the tabs below with its success message
        msgs == IF ~ok THEN <<"An error occurred">>
                ELSE IF app = "more_featgpt" THEN <<"Schedule added successfully!">>
                ELSE <<>>
    IN  /\ t >= now
        /\ Len(schedule) < MaxAppSchedule
        \* latestapp_v2 shows the form only in a run that reaches it
        /\ app = "latestapp_v2" => "Add New Schedule" \in Range(view.sections)
        /\ now' = t
        /\ session_state' = s
        /\ schedule' = IF ok THEN append_row(schedule, new_row) ELSE schedule
        /\ Rendered(render(app, sheet1, schedule', time_filter, t, msgs))
        /\ UNCHANGED <<runs, app, sheet1, time_filter>>

AppDays == {1, 10}

\* the duration typed into the Log Activity form, in quarter hours
AppDurations == {2}

Next ==
    \/ \E t \in AppInstants, f \in TimeFilters : SelectTimeFilter(t, f)
    \/ \E t \in AppInstants : StartTimer(t)
    \/ \E t \in AppInstants : StopTimer(t)
    \/ \E t \in AppInstants, p \in Priorities, d \in AppDurations, ok \in BOOLEAN :
          LogActivity(t, p, d, ok)
    \/ \E t \in AppInstants, date \in AppDays, p \in Priorities, ok \in BOOLEAN :
          AddSchedule(t, date, p, ok)

\* the worksheets may hold rows before the first run: the Schedule is empty
\* or has one row
AppInit ==
    /\ app \in Apps
    /\ now = ist_instant(1, 1 * HOUR)
    /\ sheet1 = <<>>
    /\ schedule \in {<<>>, <<schedule_row(app, 1, "Career", "a", 2, "One-time")>>}
    /\ time_filter = "All time"
    /\ session_state = NoTimer
    /\ view = NoView
    /\ streaks = NotCalled
    /\ kpis = NotCalled
    /\ comparison = NotCalled
    /\ runs = NoRuns

Spec == AppInit /\ [][Next]_vars

----------------------------------------------------------------------------
(* Schedule submissions: the Add to Schedule button of more_featgpt, with *)
(* its three schedule types, and the Add Schedule form of latestapp_v2.   *)

WEEKDAYS ==
    <<"Monday", "Tuesday", "Wednesday", "Thursday", "Friday", "Saturday", "Sunday">>

\* date.strftime("%A"); day 1 is 2025-01-01, a Wednesday
weekday_name(d) == WEEKDAYS[((d + 1) % 7) + 1]

\* daily_dates starting on the day after the current date
daily_dates_from_tomorrow(current_date) == [i \in 1..7 |-> current_date + i]

\* for i in range(7): next_date = current_date + timedelta(days=i)
daily_dates(current_date) == [i \in 1..7 |-> current_date + (i - 1)]

\* weekly_dates stepping a week at a time from the start date
RECURSIVE weekly_dates_by_week(_, _, _)
weekly_dates_by_week(current_date, end_date, day) ==
    IF current_date > end_date THEN <<>>
    ELSE <<current_date>> \o weekly_dates_by_week(current_date + 7, end_date, day)

\* while current_date <= end_date: a row if strftime("%A") == day;
\* current_date += timedelta(days=1)
RECURSIVE weekly_dates(_, _, _)
weekly_dates(current_date, end_date, day) ==
    IF current_date > end_date THEN <<>>
    ELSE (IF weekday_name(current_date) = day THEN <<current_date>> ELSE <<>>)
            \o weekly_dates(current_date + 1, end_date, day)

\* the dates of the rows a submission of the form appends, in order
expansion_dates(form, t) ==
    IF form.schedule_type_radio = "One-time" THEN <<form.schedule_date>>
    ELSE IF form.schedule_type_radio = "Daily" THEN daily_dates(ist_day(t))
    ELSE weekly_dates(form.schedule_start_date, form.schedule_end_date, form.schedule_day)

\* the rows of the submission
expansion_rows(a, form, t) ==
    [i \in 1..Len(expansion_dates(form, t)) |->
        schedule_row(a, expansion_dates(form, t)[i], form.schedule_priority,
                     form.planned_activity, form.planned_duration,
                     form.schedule_type_radio)]

\* append_rows as one transaction: a failure leaves the sheet as it was
append_rows_atomic(sheet, rows, fail_at) ==
    IF fail_at \in 1..Len(rows)
    THEN [sheet |-> sheet, raised |-> TRUE]
    ELSE [sheet |-> sheet \o rows, raised |-> FALSE]

\* the worksheet after the append_row calls of one try block, the
\* fail_at-th of which raises (none raises when fail_at is 0 or beyond the
\* last call)
append_rows(sheet, rows, fail_at) ==
    IF fail_at \in 1..Len(rows)
    THEN [sheet |-> sheet \o SubSeq(rows, 1, fail_at - 1), raised |-> TRUE]
    ELSE [sheet |-> sheet \o rows, raised |-> FALSE]

\* the widgets of the schedule form, under the keys more_featgpt gives them
Form(schedule_type, date, day, start_date, end_date, priority, planned_duration) ==
    [timer_running |-> FALSE, start_time |-> None, elapsed_time |-> 0,
     schedule_type_radio |-> schedule_type,
     schedule_date |-> date,
     schedule_day |-> day,
     schedule_start_date |-> start_date,
     schedule_end_date |-> end_date,
     schedule_priority |-> priority,
     planned_activity |-> "a",
     planned_duration |-> planned_duration]

FormDates == {1, 6}
WeeklyStarts == {6, 8, 21}
WeeklyEnds == {6, 13, 20}
WeeklyDays == {"Monday", "Wednesday"}

\* the forms a user submits; a widget the schedule type does not show keeps
\* its default
Forms(a) ==
    {Form("One-time", date, "Monday", 1, 1, p, d) :
        date \in FormDates, p \in Priorities, d \in PlannedDurations}
    \cup (IF a = "latestapp_v2" THEN {}
          ELSE {Form("Daily", 1, "Monday", 1, 1, p, 3) : p \in Priorities}
               \cup {Form("Weekly", 1, day, start_date, end_date, "Career", 3) :
                        day \in WeeklyDays, start_date \in WeeklyStarts,
                        end_date \in WeeklyEnds})

FailPoints == {0, 1, 3}

\* whether the run shows the schedule form: more_featgpt always does,
\* latestapp_v2 only when the run reaches its Schedule Planner tab
form_shown(a, rows, sched, f, t) ==
    \/ a = "more_featgpt"
    \/ "Add New Schedule" \in Range(render_latestapp_v2(rows, sched, f, t, <<>>).sections)

\* the button of the schedule form
AddToSchedule(form, fail_at) ==
    LET appended == append_rows(schedule, expansion_rows(app, form, now), fail_at)
    IN  /\ Len(schedule) < MaxScheduleLen
        /\ form \in Forms(app)
        /\ form_shown(app, sheet1, schedule, time_filter, now)
        /\ session_state' = form
        /\ schedule' = appended.sheet
        /\ view' = [sections |-> IF app = "more_featgpt"
                                 THEN <<"Schedule Activities">>
                                 ELSE <<"Today's Schedule", "Add New Schedule">>,
                    raised |-> "none",
                    messages |-> IF appended.raised THEN <<"An error occurred">>
                                 \* st.rerun() of latestapp_v2 drops the message
                                 ELSE IF app = "more_featgpt"
                                 THEN <<"Schedule added successfully!">>
                                 ELSE <<>>]
        /\ UNCHANGED <<runs, app, now, sheet1, time_filter, streaks, kpis, comparison>>

ScheduleInstants ==
    {ist_instant(1, 1 * HOUR), ist_instant(1, 23 * HOUR), ist_instant(6, 1 * HOUR)}

ScheduleTick(t) ==
    /\ t > now
    /\ now' = t
    /\ UNCHANGED <<runs, app, sheet1, schedule, time_filter, session_state, view,
                   streaks, kpis, comparison>>

\* the Activity Log has a record, and the Schedule is empty or has an entry
ScheduleInit ==
    /\ app \in Apps
    /\ now = ist_instant(1, 1 * HOUR)
    /\ sheet1 = <<activity_row(now, "Career", "a", 1, "")>>
    /\ schedule \in {<<>>, <<schedule_row(app, 1, "Career", "a", 3, "One-time")>>}
    /\ time_filter = "All time"
    /\ session_state = NoTimer
    /\ view = NoView
    /\ streaks = NotCalled
    /\ kpis = NotCalled
    /\ comparison = NotCalled
    /\ runs = NoRuns

ScheduleNext ==
    \/ \E form \in Forms("more_featgpt"), fail_at \in FailPoints :
          AddToSchedule(form, fail_at)
    \/ \E t \in ScheduleInstants : ScheduleTick(t)

ScheduleSpec == ScheduleInit /\ [][ScheduleNext]_vars

----------------------------------------------------------------------------
(* Two browser sessions on one Schedule worksheet.  A run of the script   *)
(* sends the rows of its submission one append_row call at a time, and    *)
(* the calls of the two sessions reach the worksheet in any order.        *)

\* the rows that the append_row calls of both sessions carry, sent or not
MaxConcRows == 8

\* the forms the sessions submit: a Daily schedule and the entry of one day
ConcForms ==
    {Form("Daily", 1, "Monday", 1, 1, "Career", 3),
     Form("One-time", 6, "Monday", 1, 1, "Fitness", 3)}

\* the run of session s has returned from all its append_row calls
run_ended(s) == runs[s].sent = Len(runs[s].rows)

\* the Add to Schedule button in session s: the run starts on the
\* append_row calls of the form's rows
ConcSubmit(s, form) ==
    LET rows == expansion_rows(app, form, now)
    IN  /\ run_ended(s)
        /\ Len(runs["A"].rows) + Len(runs["B"].rows) + Len(rows) <= MaxConcRows
        /\ form \in Forms(app)
        /\ form_shown(app, sheet1, schedule, time_filter, now)
        /\ runs' = [runs EXCEPT ![s].rows = @ \o rows]
        /\ UNCHANGED <<app, now, sheet1, schedule, time_filter, session_state,
                       view, streaks, kpis, comparison>>

\* the next schedule_sheet.append_row call of session s reaches the worksheet
ConcAppend(s) ==
    /\ ~run_ended(s)
    /\ schedule' = append_row(schedule, runs[s].rows[runs[s].sent + 1])
    /\ runs' = [runs EXCEPT ![s].sent = @ + 1]
    /\ UNCHANGED <<app, now, sheet1, time_filter, session_state, view, streaks,
                   kpis, comparison>>

\* load_data in a new run of session s: schedule_sheet.get_all_records()
ConcLoad(s) ==
    /\ run_ended(s)
    /\ runs[s].schedule_data # schedule
    /\ runs' = [runs EXCEPT ![s].schedule_data = schedule]
    /\ UNCHANGED <<app, now, sheet1, schedule, time_filter, session_state, view,
                   streaks, kpis, comparison>>

\* the Activity Log has a record and the Schedule an entry, so that both
\* scripts show the schedule form
ConcInit ==
    /\ ScheduleInit
    /\ schedule # <<>>

ConcNext ==
    \/ \E s \in Sessions, form \in ConcForms : ConcSubmit(s, form)
    \/ \E s \in Sessions : ConcAppend(s)
    \/ \E s \in Sessions : ConcLoad(s)

ConcSpec == ConcInit /\ [][ConcNext]_vars

\* the record set the last engine or streak run was given
current_df == record_set(app, sheet1, time_filter, now)

----------------------------------------------------------------------------
(* Streaks: C4, C5, C6 *)

\* the distinct calendar dates on which the record set has a record of p
dates_of(p) ==
    {dt_date(current_df.rows[i].Timestamp) :
        i \in {j \in 1..Len(current_df.rows) : current_df.rows[j].Priority = p}}

\* the length of the longest run of consecutive days within S
LongestRun(S) ==
    MaxOf({n \in 1..Cardinality(S) : \E a \in S : \A k \in 0..(n - 1) : a + k \in S})

\* the length of the run of consecutive days of S that ends on day e
RunEndingAt(S, e) ==
    MaxOf({n \in 1..Cardinality(S) : \A k \in 0..(n - 1) : e - k \in S})

\* C4: for every priority, max is the length of the longest run of
\* consecutive calendar days among that priority's distinct activity dates.
C4_MaxStreak ==
    streaks.raises = "none" =>
        \A p \in DOMAIN streaks.result :
            streaks.result[p].max = LongestRun(dates_of(p))

\* the example of the specification: activity on days 1, 2, 3 and 5
C4_Witness ==
    /\ streaks.raises = "none"
    /\ "Fitness" \in DOMAIN streaks.result
    /\ dates_of("Fitness") = {1, 2, 3, 5}
    /\ streaks.result["Fitness"].max = 3

\* C5: for every priority, current is the length of the run of consecutive
\* days that ends at the priority's latest date, and last_activity is that
\* date, whatever today's date is.
C5_CurrentStreak ==
    streaks.raises = "none" =>
        \A p \in DOMAIN streaks.result :
            /\ streaks.result[p].last_activity = MaxOf(dates_of(p))
            /\ streaks.result[p].current = RunEndingAt(dates_of(p), MaxOf(dates_of(p)))

\* a streak of two days or more that ended two days or more before today
C5_Witness ==
    /\ streaks.raises = "none"
    /\ \E p \in DOMAIN streaks.result :
          /\ streaks.result[p].current >= 2
          /\ ist_day(now) - streaks.result[p].last_activity >= 2

\* C6: on an empty record set calculate_streaks returns the empty mapping
\* and does not raise.
C6_EmptyStreaks ==
    (streaks.raises # "not called" /\ empty(current_df)) =>
        (streaks.raises = "none" /\ DOMAIN streaks.result = {})

\* calculate_streaks has run on a worksheet without rows
C6_Witness ==
    /\ sheet1 = <<>>
    /\ streaks.raises = "none"
    /\ DOMAIN streaks.result = {}

----------------------------------------------------------------------------
(* KPIs: C1, C7, C9, C10 *)

all_dates == {dt_date(current_df.rows[i].Timestamp) : i \in 1..Len(current_df.rows)}

all_priorities == {current_df.rows[i].Priority : i \in 1..Len(current_df.rows)}

RECURSIVE TotalOf(_, _)
TotalOf(rows, p) ==
    IF rows = <<>> THEN 0
    ELSE (IF Head(rows).Priority = p THEN Head(rows).Duration ELSE 0)
            + TotalOf(Tail(rows), p)

\* C1: avg_hours_per_day = total_hours / span_days, span_days being the
\* calendar date of the latest timestamp minus that of the earliest, plus 1.
\* (Stated of more_featgpt, whose load_data keeps the logged wall clock.)
C1_AvgOverCalendarSpan ==
    (app = "more_featgpt" /\ kpis.raises = "none") =>
        kpis.result.avg_hours_per_day =
            Frac(kpis.result.total_hours, MaxOf(all_dates) - MinOf(all_dates) + 1)

C9_MostActive ==
    kpis.raises = "none" =>
        /\ kpis.result.most_active_priority \in all_priorities
        /\ \A q \in all_priorities :
              LET m == kpis.result.most_active_priority
              IN  /\ TotalOf(current_df.rows, q) <= TotalOf(current_df.rows, m)
                  /\ TotalOf(current_df.rows, q) = TotalOf(current_df.rows, m)
                        => SortKey(m) <= SortKey(q)

\* a tie of two priorities, the one logged first not being the one returned
C9_Witness ==
    /\ kpis.raises = "none"
    /\ Len(current_df.rows) >= 2
    /\ current_df.rows[1].Priority = "Fitness"
    /\ TotalOf(current_df.rows, "Fitness") = TotalOf(current_df.rows, "Career")
    /\ kpis.result.most_active_priority = "Career"

\* C10: the average of a priority is the sum of its durations divided by the
\* number of distinct calendar days on which it has a record.
C10_PriorityAverages ==
    kpis.raises = "none" =>
        /\ DOMAIN kpis.result.priority_averages = all_priorities
        /\ \A p \in all_priorities :
              kpis.result.priority_averages[p] =
                  Frac(TotalOf(current_df.rows, p), Cardinality(dates_of(p)))

\* a priority with records on two days that are not adjacent
C10_Witness ==
    /\ kpis.raises = "none"
    /\ \E p \in all_priorities :
          /\ Cardinality(dates_of(p)) = 2
          /\ MaxOf(dates_of(p)) - MinOf(dates_of(p)) >= 2
          /\ kpis.result.priority_averages[p] = Frac(TotalOf(current_df.rows, p), 2)

\* the durations of the rows with an index in I, summed in no order
RECURSIVE SumOver(_, _)
SumOver(I, rows) ==
    IF I = {} THEN 0
    ELSE LET i == CHOOSE j \in I : TRUE
         IN  rows[i].Duration + SumOver(I \ {i}, rows)

\* the rows in the order perm gives them
Reordered(rows, perm) == [i \in 1..Len(rows) |-> rows[perm[i]]]

\* C11: total_hours is the sum of the durations of all records of the set,
\* and calculate_kpis returns the same total_hours for every reordering of
\* the records.
C11_TotalHours ==
    kpis.raises = "none" =>
        /\ kpis.result.total_hours = SumOver(1..Len(current_df.rows), current_df.rows)
        /\ \A perm \in Permutations(1..Len(current_df.rows)) :
              LET k == calculate_kpis(DataFrame(TRUE, Reordered(current_df.rows, perm)))
              IN  k.raises = "none" /\ k.result.total_hours = kpis.result.total_hours

\* two records of the same duration and of different priorities, so that a
\* reordering changes the first row and the total is twice the duration
C11_Witness ==
    /\ kpis.raises = "none"
    /\ Len(current_df.rows) = 2
    /\ current_df.rows[1].Duration = current_df.rows[2].Duration
    /\ current_df.rows[1].Priority # current_df.rows[2].Priority
    /\ kpis.result.total_hours = 2 * current_df.rows[1].Duration

----------------------------------------------------------------------------
(* Reconciliation: C3 *)

\* the activity records the last reconciliation was given: those of the
\* loaded log that lie in the time window
recon_activity ==
    LET df == load_data(app, sheet1)
    IN  IF time_filter = "All time" THEN df.rows
        ELSE IF app = "latestapp_v2"
        THEN SelectSeq(df.rows, LAMBDA r :
                 dt_date(r.Timestamp) >= ist_day(now - filter_days(time_filter) * DAY))
        ELSE SelectSeq(df.rows, LAMBDA r :
                 r.Timestamp.utc >= now - filter_days(time_filter) * DAY)

\* the schedule entries it was given: latestapp_v2 cuts them to the window
recon_schedule ==
    IF time_filter = "All time" \/ app # "latestapp_v2" THEN schedule
    ELSE SelectSeq(schedule, LAMBDA e :
             e.Date >= ist_day(now - filter_days(time_filter) * DAY))

ActivityPairs ==
    {<<dt_date(recon_activity[i].Timestamp), recon_activity[i].Priority>> :
        i \in 1..Len(recon_activity)}

SchedulePairs ==
    {<<recon_schedule[i].Date, recon_schedule[i].Priority>> : i \in 1..Len(recon_schedule)}

RECURSIVE ActualHours(_, _)
ActualHours(rows, g) ==
    IF rows = <<>> THEN 0
    ELSE (IF <<dt_date(Head(rows).Timestamp), Head(rows).Priority>> = g
          THEN Head(rows).Duration ELSE 0) + ActualHours(Tail(rows), g)

RECURSIVE PlannedHours(_, _)
PlannedHours(entries, g) ==
    IF entries = <<>> THEN 0
    ELSE (IF <<Head(entries).Date, Head(entries).Priority>> = g
          THEN Head(entries).Planned_Duration ELSE 0) + PlannedHours(Tail(entries), g)

\* the rows are a full outer join of the two inputs on (date, priority)
IsFullOuterJoin(rows) ==
    /\ \A g \in ActivityPairs \cup SchedulePairs :
          Cardinality({i \in 1..Len(rows) : <<rows[i].Date, rows[i].Priority>> = g}) = 1
    /\ \A i \in 1..Len(rows) :
          LET g == <<rows[i].Date, rows[i].Priority>>
          IN  /\ g \in ActivityPairs \cup SchedulePairs
              /\ rows[i].Planned_Duration = PlannedHours(recon_schedule, g)
              /\ rows[i].Duration = ActualHours(recon_activity, g)

\* C3 as claimed: for any schedule set and any activity set, either of which
\* may be empty, the reconciliation has exactly one row for each distinct
\* (date, priority) pair of either input, with the sums of the planned and
\* of the actual durations of the pair, 0 where the pair is absent.
C3_FullOuterJoinAlways ==
    comparison.raises = "none" => IsFullOuterJoin(comparison.result.rows)

\* C3 as amended: the reconciliation of a non-empty schedule set with a
\* non-empty activity set is that full outer join; when the Schedule or the
\* Activity Log has no rows it shows a message and produces no row.
C3_FullOuterJoin ==
    comparison.raises = "none" =>
        /\ (recon_activity # <<>> /\ recon_schedule # <<>>)
              => (comparison.result.shown /\ IsFullOuterJoin(comparison.result.rows))
        /\ (sheet1 = <<>> \/ schedule = <<>>)
              => (comparison.result.rows = <<>> /\ comparison.result.message # "")

\* a pair in both inputs, one only in the log and one only in the schedule
C3_Witness ==
    /\ comparison.raises = "none"
    /\ \E i, j, k \in 1..Len(comparison.result.rows) :
          LET rows == comparison.result.rows
          IN  /\ rows[i].Planned_Duration > 0 /\ rows[i].Duration > 0
              /\ rows[j].Planned_Duration = 0 /\ rows[j].Duration > 0
              /\ rows[k].Planned_Duration > 0 /\ rows[k].Duration = 0

----------------------------------------------------------------------------
(* The round trip of a logged record: C2 *)

\* the record a Log Activity run has just appended, as load_data returns it
reloaded == load_data(app, sheet1').rows[Len(sheet1')]

\* C2: appending a record with Log Activity and reloading the table gives a
\* record with the stored priority, duration and description and the
\* instant of the logging: its wall-clock time and calendar date in IST are
\* those at which it was logged.
C2_RoundTrip ==
    [][Len(sheet1') = Len(sheet1) + 1 =>
          /\ reloaded.Priority = sheet1'[Len(sheet1')].Priority
          /\ reloaded.Duration = sheet1'[Len(sheet1')].Duration
          /\ reloaded.Activity_Description = sheet1'[Len(sheet1')].Activity_Description
          /\ reloaded.Timestamp.utc = now'
          /\ strftime(reloaded.Timestamp.utc, reloaded.Timestamp.off)
                = strftime(now', IST_OFFSET)
          /\ dt_date(reloaded.Timestamp) = ist_day(now')]_vars

----------------------------------------------------------------------------
(* Partial rendering: C8 *)

\* C8: in a dashboard pass a failing KPI computation does not block the
\* streaks, which are computed and shown in the same pass, and the sections
\* after Schedule Adherence (Recent Activities) are reached whatever the
\* reconciliation call does.
C8_PartialRendering ==
    /\ (kpis.raises \notin {"none", "not called"}) =>
          /\ streaks.raises = "none"
          /\ "Activity Streaks" \in Range(view.sections)
    /\ "Schedule Adherence" \in Range(view.sections) =>
          "Recent Activities" \in Range(view.sections)

----------------------------------------------------------------------------
(* The time window of the reconciliation: C12 *)

\* the first calendar date of the window, seen from now in IST
window_start == ist_day(now - filter_days(time_filter) * DAY)

\* the loaded activity records whose date is within the window
WindowedActivity ==
    IF time_filter = "All time" THEN load_data(app, sheet1).rows
    ELSE SelectSeq(load_data(app, sheet1).rows,
                   LAMBDA r : dt_date(r.Timestamp) >= window_start)

\* the schedule entries whose date is within the window
WindowedSchedule ==
    IF time_filter = "All time" THEN schedule
    ELSE SelectSeq(schedule, LAMBDA e : e.Date >= window_start)

\* C12: every reconciliation row counts the schedule entries of its (date,
\* priority) pair that lie in the time window and the activity records of
\* the pair that lie in it, and no other; 'All time' removes nothing.
C12_WindowBothSets ==
    (comparison.raises = "none" /\ comparison.result.shown) =>
        \A i \in 1..Len(comparison.result.rows) :
            LET row == comparison.result.rows[i]
                g == <<row.Date, row.Priority>>
            IN  /\ row.Planned_Duration = PlannedHours(WindowedSchedule, g)
                /\ row.Duration = ActualHours(WindowedActivity, g)

----------------------------------------------------------------------------
(* The completion rate of a row: C13 *)

\* r, in hundredths, is n / d rounded to two decimal places
IsRounded2(r, n, d) ==
    /\ 2 * (r * d - 100 * n) <= d
    /\ 2 * (100 * n - r * d) <= d

\* C13: in every reconciliation row completion_rate is actual_hours /
\* planned_hours * 100 rounded to 2 decimal places when planned_hours > 0,
\* and 0 when planned_hours = 0.
C13_CompletionRate ==
    (app = "more_featgpt" /\ comparison.raises = "none" /\ comparison.result.shown) =>
        \A i \in 1..Len(comparison.result.rows) :
            LET row == comparison.result.rows[i]
            IN  IF row.Planned_Duration > 0
                THEN IsRounded2(row.Completion_Rate,
                                row.Duration * 100, row.Planned_Duration)
                ELSE row.Completion_Rate = 0

\* a rate that rounding moves up (2/3 gives 66.67) and a planned row with
\* nothing done
C13_Witness ==
    /\ app = "more_featgpt"
    /\ comparison.raises = "none"
    /\ comparison.result.shown
    /\ \E i, j \in 1..Len(comparison.result.rows) :
          LET rows == comparison.result.rows
          IN  /\ rows[i].Planned_Duration = 3 /\ rows[i].Duration = 2
              /\ rows[i].Completion_Rate = 6667
              /\ rows[j].Planned_Duration = 3 /\ rows[j].Duration = 0
              /\ rows[j].Completion_Rate = 0

----------------------------------------------------------------------------
(* The difference of a row: C14 *)

\* the row carries the difference of its actual and its planned hours
HasDifference(row) ==
    /\ "Difference" \in DOMAIN row
    /\ row.Difference = row.Duration - row.Planned_Duration

\* C14 as claimed: every reconciliation row carries difference =
\* actual_hours - planned_hours for its (date, priority) pair.
C14_DifferenceAlways ==
    (comparison.raises = "none" /\ comparison.result.shown) =>
        \A i \in 1..Len(comparison.result.rows) : HasDifference(comparison.result.rows[i])

\* C14 as amended: every row of create_plan_vs_actual_analysis (latestapp_v2)
\* carries difference = actual_hours - planned_hours; the rows of
\* analyze_schedule_vs_actual (more_featgpt) carry the planned hours, the
\* actual hours and the completion rate, and no difference.
C14_Difference ==
    (comparison.raises = "none" /\ comparison.result.shown) =>
        \A i \in 1..Len(comparison.result.rows) :
            IF app = "latestapp_v2"
            THEN HasDifference(comparison.result.rows[i])
            ELSE DOMAIN comparison.result.rows[i] =
                    {"Date", "Priority", "Planned_Duration", "Duration", "Completion_Rate"}

\* a planned entry with no activity (difference -planned) and an activity
\* with nothing planned (difference +actual)
C14_Witness ==
    /\ app = "latestapp_v2"
    /\ comparison.raises = "none"
    /\ comparison.result.shown
    /\ \E i, j \in 1..Len(comparison.result.rows) :
          LET rows == comparison.result.rows
          IN  /\ rows[i].Planned_Duration = 3 /\ rows[i].Duration = 0
              /\ rows[i].Difference = -3
              /\ rows[j].Planned_Duration = 0 /\ rows[j].Duration = 1
              /\ rows[j].Difference = 1

----------------------------------------------------------------------------
(* The aggregates of a priority: C15 *)

\* the sum of the column col over the rows of priority p
RECURSIVE ColumnTotal(_, _, _)
ColumnTotal(rows, p, col) ==
    IF rows = <<>> THEN 0
    ELSE (IF Head(rows).Priority = p THEN Head(rows)[col] ELSE 0)
            + ColumnTotal(Tail(rows), p, col)

\* C15: for every priority of the joined rows, the aggregates are the sums
\* over the rows of that priority of the planned hours, of the actual hours
\* and of the difference, and percentage_deviation is total_difference /
\* total_planned_hours * 100 (shown with 2 decimals), 0 when
\* total_planned_hours = 0.
C15_PriorityAggregates ==
    (app = "latestapp_v2" /\ comparison.raises = "none" /\ comparison.result.shown) =>
        LET rows == comparison.result.rows
            kpi_df == comparison.result.kpi_df
        IN  /\ DOMAIN kpi_df = {rows[i].Priority : i \in 1..Len(rows)}
            /\ \A p \in DOMAIN kpi_df :
                  /\ kpi_df[p].Total_Planned_Hours = ColumnTotal(rows, p, "Planned_Duration")
                  /\ kpi_df[p].Total_Actual_Hours = ColumnTotal(rows, p, "Duration")
                  /\ kpi_df[p].Total_Difference = ColumnTotal(rows, p, "Difference")
                  /\ IF kpi_df[p].Total_Planned_Hours = 0
                     THEN kpi_df[p].Percentage_Deviation = 0
                     ELSE IsRounded2(kpi_df[p].Percentage_Deviation,
                                     kpi_df[p].Total_Difference * 100,
                                     kpi_df[p].Total_Planned_Hours)

\* a priority with rows on two dates, behind its plan by two thirds, and a
\* priority with nothing planned
C15_Witness ==
    /\ app = "latestapp_v2"
    /\ comparison.raises = "none"
    /\ comparison.result.shown
    /\ DOMAIN comparison.result.kpi_df = {"Career", "Fitness"}
    /\ Len(SelectSeq(comparison.result.rows, LAMBDA r : r.Priority = "Career")) = 2
    /\ comparison.result.kpi_df["Career"] =
          [Total_Planned_Hours |-> 3, Total_Actual_Hours |-> 1,
           Total_Difference |-> -2, Percentage_Deviation |-> -6667]
    /\ comparison.result.kpi_df["Fitness"] =
          [Total_Planned_Hours |-> 0, Total_Actual_Hours |-> 1,
           Total_Difference |-> 1, Percentage_Deviation |-> 0]

----------------------------------------------------------------------------
(* The overall completion rate: C16 *)

\* the sum of the column col over all rows
RECURSIVE RowsTotal(_, _)
RowsTotal(rows, col) ==
    IF rows = <<>> THEN 0 ELSE Head(rows)[col] + RowsTotal(Tail(rows), col)

\* C16 as claimed: the overall completion rate equals (sum of actual hours
\* over all rows) / (sum of planned hours over all rows) * 100, and is 0 when
\* the sum of planned hours is 0.
C16_OverallCompletionExact ==
    (app = "more_featgpt" /\ comparison.raises = "none" /\ comparison.result.shown) =>
        LET rows == comparison.result.rows
        IN  IF RowsTotal(rows, "Planned_Duration") = 0
            THEN comparison.result.overall_completion = 0
            ELSE comparison.result.overall_completion * RowsTotal(rows, "Planned_Duration")
                    = RowsTotal(rows, "Duration") * 10000

\* C16 as amended: the overall completion rate is that quotient rounded to 2
\* decimal places, and 0 when the sum of planned hours is 0.
C16_OverallCompletion ==
    (app = "more_featgpt" /\ comparison.raises = "none" /\ comparison.result.shown) =>
        LET rows == comparison.result.rows
        IN  IF RowsTotal(rows, "Planned_Duration") = 0
            THEN comparison.result.overall_completion = 0
            ELSE IsRounded2(comparison.result.overall_completion,
                            RowsTotal(rows, "Duration") * 100,
                            RowsTotal(rows, "Planned_Duration"))

\* two rows, 0.25 h done of 0.75 h planned: 33.33 percent
C16_Witness ==
    /\ app = "more_featgpt"
    /\ comparison.raises = "none"
    /\ comparison.result.shown
    /\ Len(comparison.result.rows) = 2
    /\ RowsTotal(comparison.result.rows, "Planned_Duration") = 3
    /\ RowsTotal(comparison.result.rows, "Duration") = 1
    /\ comparison.result.overall_completion = 3333

----------------------------------------------------------------------------
(* Schedule expansion: C17, C18, C19 *)

\* the rows a step has appended to the Schedule
appended == SubSeq(schedule', Len(schedule) + 1, Len(schedule'))

\* the step is a submission of the schedule form of the given type, all of
\* whose appends succeeded
Submitted(schedule_type) ==
    /\ now' = now
    /\ "schedule_type_radio" \in DOMAIN session_state'
    /\ session_state'.schedule_type_radio = schedule_type
    /\ "An error occurred" \notin Range(view'.messages)
    /\ Len(schedule') >= Len(schedule)

\* rows are dated with exactly the dates of S, in ascending order
DatedAscending(rows, S) ==
    /\ Len(rows) = Cardinality(S)
    /\ {rows[i].Date : i \in 1..Len(rows)} = S
    /\ \A i, j \in 1..Len(rows) : i < j => rows[i].Date < rows[j].Date

\* C17: a Weekly submission appends exactly one row for each date d with
\* start_date <= d <= end_date whose weekday is the selected day, in
\* ascending date order, and no other row; none when start_date is after
\* end_date.
C17_WeeklyExpansion ==
    [][Submitted("Weekly") =>
          DatedAscending(appended,
              {d \in session_state'.schedule_start_date .. session_state'.schedule_end_date :
                  weekday_name(d) = session_state'.schedule_day})]_vars

\* the example: Monday between 2025-01-06 and 2025-01-20 has given the three
\* rows of 01-06, 01-13 and 01-20
C17_Witness ==
    /\ "schedule_type_radio" \in DOMAIN session_state
    /\ session_state.schedule_type_radio = "Weekly"
    /\ session_state.schedule_day = "Monday"
    /\ session_state.schedule_start_date = 6
    /\ session_state.schedule_end_date = 20
    /\ view.messages = <<"Schedule added successfully!">>
    /\ Len(schedule) >= 3
    /\ [i \in 1..3 |-> schedule[Len(schedule) - 3 + i].Date] = <<6, 13, 20>>

\* C18: a Daily submission whose appends all succeed adds exactly 7 rows to
\* the Schedule, dated today, today + 1, ..., today + 6, today being the
\* current date in IST.
C18_DailyExpansion ==
    [][Submitted("Daily") =>
          /\ Len(appended) = 7
          /\ \A i \in 1..7 : appended[i].Date = ist_day(now') + i - 1]_vars

\* a Daily submission at 01:00 IST of day 6, when the date in UTC is still
\* day 5, has given the rows of the days 6 to 12
C18_Witness ==
    /\ "schedule_type_radio" \in DOMAIN session_state
    /\ session_state.schedule_type_radio = "Daily"
    /\ view.messages = <<"Schedule added successfully!">>
    /\ now = ist_instant(6, 1 * HOUR)
    /\ now \div DAY = 5
    /\ Len(schedule) >= 7
    /\ [i \in 1..7 |-> schedule[Len(schedule) - 7 + i].Date] = <<6, 7, 8, 9, 10, 11, 12>>

\* the step is a submission of the schedule form, whatever its appends did
SubmittedAny ==
    /\ now' = now
    /\ "schedule_type_radio" \in DOMAIN session_state'
    /\ Len(schedule') >= Len(schedule)

\* the row carries what the form was submitted with
CarriesForm(row, form) ==
    /\ row.Priority = form.schedule_priority
    /\ row.Planned_Activity = form.planned_activity
    /\ row.Planned_Duration = form.planned_duration

\* a One-time submission whose append succeeds adds one row, on its date
OneRowOnDate ==
    Submitted("One-time") =>
        (Len(appended) = 1 /\ appended[1].Date = session_state'.schedule_date)

----------------------------------------------------------------------------
(* The session timer under the runs of the script: the buttons of the Log *)
(* Activity tab and the sidebar, at instants a quarter of an hour or more *)
(* apart, on worksheets that start empty.                                 *)

\* the offsets of the runs from the first one, in quarter hours
TimerOffsets == {0, 1, 3, 7}

TimerInstants == {ist_instant(1, 1 * HOUR) + k : k \in TimerOffsets}

\* what the user types into the duration field, in quarter hours
TimerDurations == {0, 2}

TimerNext ==
    \/ \E t \in TimerInstants, f \in TimeFilters : SelectTimeFilter(t, f)
    \/ \E t \in TimerInstants : StartTimer(t)
    \/ \E t \in TimerInstants : StopTimer(t)
    \/ \E t \in TimerInstants, d \in TimerDurations, ok \in BOOLEAN :
          LogActivity(t, "Career", d, ok)

TimerSpec == Init /\ [][TimerNext]_vars

\* ---------------------------------------------------------------------------
\* The stored tables only grow
\* ---------------------------------------------------------------------------

\* old is the beginning of new: every stored row is still there, in place
IsPrefix(old, new) ==
    /\ Len(old) <= Len(new)
    /\ SubSeq(new, 1, Len(old)) = old

\* C20: whatever is logged, scheduled or analysed, no stored row of the
\* Activity Log or of the Schedule is modified or removed: the earlier content
\* of each table is a prefix of its content after the step, a step that only
\* reads (a pass at a later instant or under another time filter) leaves
\* both tables as they are, and logging an activity leaves the Schedule, the
\* status of every entry included, as it is.
C20_AppendOnly ==
    [][/\ IsPrefix(sheet1, sheet1')
       /\ IsPrefix(schedule, schedule')
       /\ (now' # now \/ time_filter' # time_filter) =>
              (sheet1' = sheet1 /\ schedule' = schedule)
       /\ sheet1' # sheet1 => schedule' = schedule]_vars

\* two activities of Career are logged after two entries of Career were
\* scheduled for the same day, the analysis has run under another time
\* filter, and both entries still read Pending
C20_Witness ==
    /\ app = "more_featgpt"
    /\ Len(sheet1) = 2 /\ Len(schedule) = 2
    /\ time_filter # "All time"
    /\ comparison # NotCalled
    /\ \A i \in 1..2 :
          /\ sheet1[i].Priority = "Career"
          /\ schedule[i].Priority = "Career"
          /\ schedule[i].Date = strftime_date(sheet1[i].Timestamp.date)
          /\ schedule[i].Status = "Pending"

\* ---------------------------------------------------------------------------
\* The session timer
\* ---------------------------------------------------------------------------

\* the steps in which the user presses one of the buttons of the tab
PressStart == \E t \in TimerInstants : StartTimer(t)
PressStop == \E t \in TimerInstants : StopTimer(t)
PressLog ==
    \E t \in TimerInstants, d \in TimerDurations, ok \in BOOLEAN :
        LogActivity(t, "Career", d, ok)

\* the elapsed time the timer section shows in a run at the present instant
shown_elapsed == elapsed_hours(app, session_state, now)
shown_elapsed_after == elapsed_hours(app, session_state', now')

\* the running timer is left running from the same start, and shows no less
RunningTimerKept ==
    /\ session_state'.timer_running
    /\ session_state'.start_time = session_state.start_time
    /\ shown_elapsed_after >= shown_elapsed

\* C21 as stated: while the timer runs, every run of the script that presses
\* neither Start nor Stop leaves timer_running and start_time as they are
\* and shows no smaller elapsed time; while it is stopped, every run that
\* presses neither Start nor Log Activity leaves elapsed_time as it is.
C21_TimerSurvivesEveryRerun ==
    [][/\ (session_state.timer_running /\ ~PressStart /\ ~PressStop) =>
              RunningTimerKept
       /\ (~session_state.timer_running /\ ~PressStart /\ ~PressLog) =>
              session_state'.elapsed_time = session_state.elapsed_time]_vars

\* C21, amended: the same for the runs of a running timer that press neither
\* Start nor Stop and log no activity (a logged activity resets the timer).
C21_TimerSurvivesReruns ==
    [][/\ (/\ session_state.timer_running
           /\ ~PressStart /\ ~PressStop
           /\ sheet1' = sheet1) =>
              RunningTimerKept
       /\ (~session_state.timer_running /\ ~PressStart /\ ~PressLog) =>
              session_state'.elapsed_time = session_state.elapsed_time]_vars

\* the timer runs since an earlier instant and the last run, which chose
\* another time period and pressed no button, shows the time since then
C21_Witness ==
    /\ session_state.timer_running
    /\ session_state.start_time < now
    /\ shown_elapsed = now - session_state.start_time
    /\ time_filter = "Last 7 days"
    /\ view.messages = <<>>
    /\ sheet1 = <<>>

\* C23: the timer accumulates over Start and Stop: as long as no activity is
\* logged, the elapsed time shown grows by the time that passes while the
\* timer runs and by nothing while it is stopped, so that after Start, Stop,
\* Start, Stop it is the sum of the lengths of the running intervals, and
\* starting the timer again discards nothing of what was measured.
C23_TimerAccumulates ==
    [][sheet1' = sheet1 =>
          shown_elapsed_after =
              shown_elapsed +
                  (IF session_state.timer_running THEN now' - now ELSE 0)]_vars

\* the steps in which Log Activity is pressed and sheet.append_row raises
PressLogRaising ==
    \E t \in TimerInstants, d \in TimerDurations : LogActivity(t, "Career", d, FALSE)

\* a Log Activity step appends one row, resets the timer and shows no error,
\* or appends nothing and shows the error; it appends nothing when
\* append_row raises
LogOutcome(kept) ==
    PressLog =>
        /\ PressLogRaising => sheet1' = sheet1
        /\ IF sheet1' # sheet1
           THEN /\ Len(sheet1') = Len(sheet1) + 1
                /\ session_state' = NoTimer
                /\ "An error occurred" \notin Range(view'.messages)
           ELSE /\ "An error occurred" \in Range(view'.messages)
                /\ kept

timer_elapsed(t) ==
    IF ~session_state.timer_running THEN session_state.elapsed_time
    ELSE IF app = "latestapp_v2" THEN t - session_state.start_time
    ELSE session_state.elapsed_time + (t - session_state.start_time)

\* C26: the Duration of the row that Log Activity appends is the timer's
\* elapsed time whenever that is greater than 0, whatever was typed into the
\* duration field, and the typed duration only when the elapsed time is 0;
\* every stored Duration is >= 0.
C26_StoredDuration ==
    [][\A t \in TimerInstants, d \in TimerDurations :
          (LogActivity(t, "Career", d, TRUE) /\ sheet1' # sheet1) =>
              /\ sheet1'[Len(sheet1')].Duration =
                    IF timer_elapsed(t) > 0 THEN timer_elapsed(t) ELSE d
              /\ \A i \in 1..Len(sheet1') : sheet1'[i].Duration >= 0]_vars

\* the row stored has the three quarters of an hour the timer measured,
\* which is none of the durations that can be typed
C26_Witness ==
    /\ Len(sheet1) = 1
    /\ sheet1[1].Duration = 3
    /\ sheet1[1].Duration \notin TimerDurations
    /\ session_state = NoTimer

\* ---------------------------------------------------------------------------
\* A schedule submission whose append fails midway
\* ---------------------------------------------------------------------------

\* C25: when append_row raises at the k-th row of a Daily or Weekly
\* expansion, the k-1 rows appended before it stay in the Schedule, no
\* further row of the submission is appended, and the error is shown instead
\* of the success message.
C25_NoRollback ==
    [][(/\ now' = now
        /\ "schedule_type_radio" \in DOMAIN session_state'
        /\ session_state'.schedule_type_radio \in {"Daily", "Weekly"}) =>
          \A k \in FailPoints :
              LET form == session_state'
                  rows == expansion_rows(app, form, now)
              IN  (k \in 1..Len(rows) /\ AddToSchedule(form, k)) =>
                      /\ Len(schedule') = Len(schedule) + (k - 1)
                      /\ \A i \in 1..Len(schedule) : schedule'[i] = schedule[i]
                      /\ \A i \in 1..(k - 1) : schedule'[Len(schedule) + i] = rows[i]
                      /\ "An error occurred" \in Range(view'.messages)
                      /\ "Schedule added successfully!" \notin Range(view'.messages)]_vars

\* a Daily submission failed at its third row: the error is shown and the
\* rows of today and tomorrow follow the entry that was there before
C25_Witness ==
    /\ "An error occurred" \in Range(view.messages)
    /\ "schedule_type_radio" \in DOMAIN session_state
    /\ session_state.schedule_type_radio = "Daily"
    /\ Len(schedule) = 3
    /\ schedule[1].Type = "One-time"
    /\ schedule[2].Type = "Daily" /\ schedule[3].Type = "Daily"
    /\ schedule[2].Date = ist_day(now)
    /\ schedule[3].Date = ist_day(now) + 1

\* ---------------------------------------------------------------------------
\* The range of the streaks
\* ---------------------------------------------------------------------------

\* C27: for a record set that is not empty, calculate_streaks has an entry for
\* exactly the priorities that occur in it, and for each of them
\* 1 <= current <= max <= the number of distinct activity dates of the
\* priority.
C27_StreakBounds ==
    (streaks.raises = "none" /\ ~empty(current_df)) =>
        /\ DOMAIN streaks.result =
              {current_df.rows[i].Priority : i \in 1..Len(current_df.rows)}
        /\ \A p \in DOMAIN streaks.result :
              /\ 1 <= streaks.result[p].current
              /\ streaks.result[p].current <= streaks.result[p].max
              /\ streaks.result[p].max <= Cardinality(dates_of(p))

\* Career has a streak of two days, a gap and one more day, and several
\* records on one of the days; Fitness has no record and no entry
C27_Witness ==
    /\ streaks.raises = "none"
    /\ DOMAIN streaks.result = {"Career"}
    /\ Len(current_df.rows) = 4
    /\ dates_of("Career") = {1, 2, 4}
    /\ streaks.result["Career"].current = 1
    /\ streaks.result["Career"].max = 2

\* ---------------------------------------------------------------------------
\* Two sessions appending to the Schedule
\* ---------------------------------------------------------------------------

\* the rows of the append_row calls of session s that have returned
Sent(s) == SubSeq(runs[s].rows, 1, runs[s].sent)

Front(seq) == SubSeq(seq, 1, Len(seq) - 1)

\* all holds the elements of a and of b, each once, those of a in the order
\* of a and those of b in the order of b
RECURSIVE IsShuffle(_, _, _)
IsShuffle(all, a, b) ==
    IF all = <<>> THEN a = <<>> /\ b = <<>>
    ELSE \/ /\ a # <<>>
            /\ a[Len(a)] = all[Len(all)]
            /\ IsShuffle(Front(all), Front(a), b)
         \/ /\ b # <<>>
            /\ b[Len(b)] = all[Len(all)]
            /\ IsShuffle(Front(all), a, Front(b))

\* C22: when two sessions append to the Schedule concurrently, their rows
\* may interleave; at every point the worksheet holds, after what it held
\* before, every row either session has appended exactly once, the rows of
\* each session in the order the session sent them, and a full re-read
\* returns all the rows appended so far.
C22_ConcurrentAppends ==
    /\ [](/\ schedule # <<>>
          /\ schedule[1] = schedule_row(app, 1, "Career", "a", 3, "One-time")
          /\ IsShuffle(Tail(schedule), Sent("A"), Sent("B")))
    /\ [][\A s \in Sessions :
             runs'[s].schedule_data # runs[s].schedule_data =>
                 /\ runs'[s].schedule_data = schedule
                 /\ Len(runs'[s].schedule_data) =
                       1 + runs["A"].sent + runs["B"].sent]_vars

\* session B's entry for day 6 lies between the third and the fourth row of
\* session A's Daily schedule; B re-read the worksheet in the middle of
\* A's run and A after the end of it
C22_Witness ==
    /\ run_ended("A") /\ run_ended("B")
    /\ Len(runs["A"].rows) = 7 /\ Len(runs["B"].rows) = 1
    /\ Len(schedule) = 9
    /\ [i \in 1..9 |-> schedule[i].Type] =
          <<"One-time", "Daily", "Daily", "Daily", "One-time",
            "Daily", "Daily", "Daily", "Daily">>
    /\ [i \in 1..7 |-> schedule[IF i <= 3 THEN i + 1 ELSE i + 2].Date] =
          [i \in 1..7 |-> ist_day(now) + i - 1]
    /\ schedule[5].Priority = "Fitness"
    /\ runs["B"].schedule_data = SubSeq(schedule, 1, 6)
    /\ runs["A"].schedule_data = schedule

====
